---- MODULE Spec2Model ----
(***************************************************************************)
(* Model of the YouTube Assistant analytics script (src/unnamed/part_002). *)
(*                                                                         *)
(* The script is a library of functions called from a spreadsheet.  The    *)
(* model keeps the pending call: which function was called (op), with      *)
(* which arguments (args), and what it gave back (result): a returned      *)
(* value or a thrown error.  One action per function performs the whole    *)
(* call; Finish hands control back to the caller (Spec).                   *)
(*                                                                         *)
(* The two parts with steps of their own have a specification each: one    *)
(* request of YouTubeApiManager.makeApiRequest with its retries (api,      *)
(* SpecApi) and one run of fetchYouTubeData (run, SpecFetch).              *)
(*                                                                         *)
(* JavaScript numbers are modelled as exact rationals [n, d] (d > 0, in    *)
(* lowest terms); integers are the rationals with d = 1.  Strings that the *)
(* code scans are sequences of one-character strings.                      *)
(***************************************************************************)
EXTENDS Integers, Sequences, FiniteSets, TLC

VARIABLES op, args, result, api, run

vars == <<op, args, result, api, run>>

----------------------------------------------------------------------------
(* Bounds of the explored inputs.                                          *)

MaxCount == 3

MaxVideos == 3

MaxUploads == 4

MaxChunks == 4

MaxRuns == 4

MaxTagChunks == 2

MaxPages == 3

----------------------------------------------------------------------------
(* Outcome of a call.                                                      *)

Return(v) == [kind |-> "return", val |-> v]

Throw(e) == [kind |-> "throw", error |-> e]

----------------------------------------------------------------------------
(* JavaScript number arithmetic, exact.                                    *)

Abs(x) == IF x < 0 THEN -x ELSE x

RECURSIVE GCD(_, _)
GCD(a, b) == IF b = 0 THEN a ELSE GCD(b, a % b)

Rat(n, d) ==
  LET g == GCD(Abs(n), d)
  IN  [n |-> n \div g, d |-> d \div g]

Num(i) == Rat(i, 1)

RatAdd(a, b) == Rat(a.n * b.d + b.n * a.d, a.d * b.d)

RatSub(a, b) == Rat(a.n * b.d - b.n * a.d, a.d * b.d)

RatMul(a, b) ==
  LET x == Rat(a.n, b.d)
      y == Rat(b.n, a.d)
  IN  Rat(x.n * y.n, x.d * y.d)

\* a / b for b > 0 (every division of the modelled code is guarded so)
RatDiv(a, b) == RatMul(a, [n |-> b.d, d |-> b.n])

RatLess(a, b) == a.n * b.d < b.n * a.d

RatLeq(a, b) == a.n * b.d <= b.n * a.d

MathMin(a, b) == IF RatLess(b, a) THEN b ELSE a

\* Math.round: the nearest integer, halves rounded up
MathRound(a) == (2 * a.n + a.d) \div (2 * a.d)

----------------------------------------------------------------------------
(* AnalyticsEngine                                                         *)

trendingThreshold == 2

\* the rate with comments subtracted instead of added
calculateEngagementRateMinus(views, likes, comments) ==
  IF views = 0 THEN Num(0)
  ELSE RatMul(RatDiv(Num(likes - comments), Num(views)), Num(100))

\* the rate as a fraction, the percent factor forgotten
calculateEngagementRateFraction(views, likes, comments) ==
  IF views = 0 THEN Num(0)
  ELSE RatDiv(Num(likes + comments), Num(views))

calculateEngagementRate(views, likes, comments) ==
  IF views = 0 THEN Num(0)
  ELSE RatMul(RatDiv(Num(likes + comments), Num(views)), Num(100))

durationFactorOf(durationSeconds) ==
  IF durationSeconds <= 60 THEN Rat(8, 10)
  ELSE IF durationSeconds > 1200 THEN Rat(9, 10)
  ELSE Num(1)

\* the weighted sum with the sign of the comment term slipped
rawScoreSignSlip(normalizedEngagement, likeRatio, commentRatio, viewCount, durationFactor) ==
  RatMul(RatMul(RatAdd(RatSub(RatAdd(RatMul(normalizedEngagement, Rat(4, 10)),
                                     RatMul(likeRatio, Rat(3, 10))),
                              RatMul(commentRatio, Rat(2, 10))),
                       IF viewCount > 1000 THEN Rat(1, 10) ELSE Num(0)),
                durationFactor),
         Num(100))

rawScore(normalizedEngagement, likeRatio, commentRatio, viewCount, durationFactor) ==
  RatMul(RatMul(RatAdd(RatAdd(RatAdd(RatMul(normalizedEngagement, Rat(4, 10)),
                                     RatMul(likeRatio, Rat(3, 10))),
                              RatMul(commentRatio, Rat(2, 10))),
                       IF viewCount > 1000 THEN Rat(1, 10) ELSE Num(0)),
                durationFactor),
         Num(100))

generatePerformanceScoreSubscriberBonus(metrics) ==
  LET viewCount == metrics.viewCount
      likeCount == metrics.likeCount
      commentCount == metrics.commentCount
      durationSeconds == metrics.durationSeconds
      engagementRate == calculateEngagementRate(viewCount, likeCount, commentCount)
      normalizedEngagement == MathMin(RatDiv(engagementRate, Num(10)), Num(1))
      likeRatio == IF viewCount > 0
                   THEN MathMin(RatMul(RatDiv(Num(likeCount), Num(viewCount)), Num(100)), Num(1))
                   ELSE Num(0)
      commentRatio == IF viewCount > 0
                      THEN MathMin(RatMul(RatDiv(Num(commentCount), Num(viewCount)), Num(50)), Num(1))
                      ELSE Num(0)
      durationFactor == durationFactorOf(durationSeconds)
      score == rawScore(normalizedEngagement, likeRatio, commentRatio, metrics.subscriberCount, durationFactor)
  IN  MathRound(MathMin(score, Num(100)))

generatePerformanceScore(metrics) ==
  LET viewCount == metrics.viewCount
      likeCount == metrics.likeCount
      commentCount == metrics.commentCount
      durationSeconds == metrics.durationSeconds
      engagementRate == calculateEngagementRate(viewCount, likeCount, commentCount)
      normalizedEngagement == MathMin(RatDiv(engagementRate, Num(10)), Num(1))
      likeRatio == IF viewCount > 0
                   THEN MathMin(RatMul(RatDiv(Num(likeCount), Num(viewCount)), Num(100)), Num(1))
                   ELSE Num(0)
      commentRatio == IF viewCount > 0
                      THEN MathMin(RatMul(RatDiv(Num(commentCount), Num(viewCount)), Num(50)), Num(1))
                      ELSE Num(0)
      durationFactor == durationFactorOf(durationSeconds)
      score == rawScore(normalizedEngagement, likeRatio, commentRatio, viewCount, durationFactor)
  IN  MathRound(MathMin(score, Num(100)))

\* filter callback: is the video's engagement rate at least the threshold
isTrendingStrict(video) ==
  RatLess(Num(trendingThreshold),
          calculateEngagementRate(video.viewCount, video.likeCount, video.commentCount))

isTrending(video) ==
  RatLeq(Num(trendingThreshold),
         calculateEngagementRate(video.viewCount, video.likeCount, video.commentCount))

RECURSIVE identifyTrendingContent(_)
identifyTrendingContent(videoDataset) ==
  IF videoDataset = <<>> THEN <<>>
  ELSE LET video == Head(videoDataset)
           rest == identifyTrendingContent(Tail(videoDataset))
       IN  IF isTrending(video) THEN <<video>> \o rest ELSE rest

----------------------------------------------------------------------------
(* analyzeUploadPatterns.  A publish timestamp is a whole number of hours  *)
(* since 1970-01-01T00:00 (a Thursday); the script's time zone is taken as *)
(* UTC.  The keys of dayStats and hourStats are the canonical numeric      *)
(* strings "0", "1", ..., written as the numbers they denote.              *)

getDay(date) == ((date \div 24) + 4) % 7

getHours(date) == date % 24

EmptyObject == [k \in {} |-> 0]

\* stats[key] = (stats[key] || 0) + 1
Increment(stats, key) ==
  IF key \in DOMAIN stats THEN [stats EXCEPT ![key] = @ + 1]
  ELSE (key :> 1) @@ stats

RECURSIVE countUploads(_, _)
countUploads(videoDataset, stats) ==
  IF videoDataset = <<>> THEN stats
  ELSE LET date == Head(videoDataset).publishedAt
           dayOfWeek == getDay(date)
           hour == getHours(date)
       IN  countUploads(Tail(videoDataset),
                        [dayStats |-> Increment(stats.dayStats, dayOfWeek),
                         hourStats |-> Increment(stats.hourStats, hour)])

\* Object.keys of an object with integer-like keys: ascending numeric order
RECURSIVE AscendingKeys(_)
AscendingKeys(S) ==
  IF S = {} THEN <<>>
  ELSE LET least == CHOOSE x \in S : \A y \in S : x <= y
       IN  <<least>> \o AscendingKeys(S \ {least})

ObjectKeys(obj) == AscendingKeys(DOMAIN obj)

\* the reducer keeping the earlier key on a tie
keepLargerOrEarlier(stats, a, b) == IF stats[a] >= stats[b] THEN a ELSE b

\* the reducer keeping the key with the smaller count
keepSmaller(stats, a, b) == IF stats[a] < stats[b] THEN a ELSE b

\* the reducer (a, b) => stats[a] > stats[b] ? a : b
keepLarger(stats, a, b) == IF stats[a] > stats[b] THEN a ELSE b

RECURSIVE reduceFrom(_, _, _, _)
reduceFrom(keys, i, acc, stats) ==
  IF i > Len(keys) THEN acc
  ELSE reduceFrom(keys, i + 1, keepLarger(stats, acc, keys[i]), stats)

\* keys.reduce(reducer) without an initial value: a TypeError on no keys
reduceKeys(keys, stats) ==
  IF Len(keys) = 0 THEN Throw("TypeError")
  ELSE Return(reduceFrom(keys, 2, keys[1], stats))

dayNames == <<"Sunday", "Monday", "Tuesday", "Wednesday", "Thursday", "Friday", "Saturday">>

analyzeUploadPatterns(videoDataset) ==
  LET stats == countUploads(videoDataset, [dayStats |-> EmptyObject, hourStats |-> EmptyObject])
      dayStats == stats.dayStats
      hourStats == stats.hourStats
      bestDay == reduceKeys(ObjectKeys(dayStats), dayStats)
      bestHour == reduceKeys(ObjectKeys(hourStats), hourStats)
  IN  IF bestDay.kind = "throw" THEN bestDay
      ELSE IF bestHour.kind = "throw" THEN bestHour
      ELSE Return([bestUploadDay |-> dayNames[bestDay.val + 1],
                   bestUploadHour |-> <<bestHour.val, ":00">>,
                   dayDistribution |-> dayStats,
                   hourDistribution |-> hourStats])

----------------------------------------------------------------------------
(* getContentType.  A JavaScript value is [type, value]; the value of a    *)
(* string is its sequence of characters.                                   *)

JSUndefined == [type |-> "undefined", value |-> <<>>]

JSNull == [type |-> "null", value |-> <<>>]

JSNumber(i) == [type |-> "number", value |-> i]

JSString(chars) == [type |-> "string", value |-> chars]

\* !v
Falsy(v) ==
  \/ v.type \in {"undefined", "null"}
  \/ v.type = "number" /\ v.value = 0
  \/ v.type = "string" /\ v.value = <<>>

DigitChars == <<"0", "1", "2", "3", "4", "5", "6", "7", "8", "9">>

\* the class \d
IsDigit(ch) == \E i \in 1..Len(DigitChars) : DigitChars[i] = ch

DigitValue(ch) == (CHOOSE i \in 1..Len(DigitChars) : DigitChars[i] = ch) - 1

\* parseInt of a string of decimal digits
RECURSIVE parseInt(_)
parseInt(chars) ==
  IF chars = <<>> THEN 0
  ELSE 10 * parseInt(SubSeq(chars, 1, Len(chars) - 1)) + DigitValue(chars[Len(chars)])

\* the length of the longest run of digits that starts at pos (greedy \d+)
RECURSIVE digitRun(_, _)
digitRun(chars, pos) ==
  IF pos <= Len(chars) /\ IsDigit(chars[pos]) THEN 1 + digitRun(chars, pos + 1) ELSE 0

\* an optional group (\d+U)? tried at pos: where the match goes on, and the
\* captured text (the empty sequence stands for an undefined capture)
matchGroup(chars, pos, unit) ==
  LET k == digitRun(chars, pos)
  IN  IF k >= 1 /\ pos + k <= Len(chars) /\ chars[pos + k] = unit
      THEN [captured |-> SubSeq(chars, pos, pos + k), next |-> pos + k + 1]
      ELSE [captured |-> <<>>, next |-> pos]

\* isoDuration.match(/PT(\d+H)?(\d+M)?(\d+S)?/): the leftmost "PT", then each
\* optional group in turn; the pattern is not anchored
regexMatch(chars) ==
  LET starts == {i \in 1..(Len(chars) - 1) : chars[i] = "P" /\ chars[i + 1] = "T"}
  IN  IF starts = {} THEN [found |-> FALSE]
      ELSE LET start == CHOOSE i \in starts : \A j \in starts : i <= j
               h == matchGroup(chars, start + 2, "H")
               m == matchGroup(chars, h.next, "M")
               sec == matchGroup(chars, m.next, "S")
           IN  [found |-> TRUE, g1 |-> h.captured, g2 |-> m.captured, g3 |-> sec.captured]

\* slice(0, -1)
sliceLast(chars) == SubSeq(chars, 1, Len(chars) - 1)

UnknownContent ==
  [type |-> "Unknown", category |-> "unknown", durationSeconds |-> 0, isShorts |-> FALSE]

\* the classifier with the Shorts boundary excluded
classifyDurationExclusive(totalSeconds) ==
  IF totalSeconds < 60 THEN [type |-> "Shorts", category |-> "short-form"]
  ELSE IF totalSeconds <= 600 THEN [type |-> "Mid-form", category |-> "mid-form"]
  ELSE [type |-> "Long-form", category |-> "long-form"]

classifyDuration(totalSeconds) ==
  IF totalSeconds <= 60 THEN [type |-> "Shorts", category |-> "short-form"]
  ELSE IF totalSeconds <= 600 THEN [type |-> "Mid-form", category |-> "mid-form"]
  ELSE [type |-> "Long-form", category |-> "long-form"]

getContentType(isoDuration) ==
  IF Falsy(isoDuration) \/ isoDuration.type # "string" THEN UnknownContent
  ELSE LET match == regexMatch(isoDuration.value)
       IN  IF ~match.found THEN UnknownContent
           ELSE LET hours == IF match.g1 # <<>> THEN parseInt(sliceLast(match.g1)) ELSE 0
                    minutes == IF match.g2 # <<>> THEN parseInt(sliceLast(match.g2)) ELSE 0
                    seconds == IF match.g3 # <<>> THEN parseInt(sliceLast(match.g3)) ELSE 0
                    totalSeconds == hours * 3600 + minutes * 60 + seconds
                    class == classifyDuration(totalSeconds)
                IN  [type |-> class.type,
                     category |-> class.category,
                     durationSeconds |-> totalSeconds,
                     isShorts |-> totalSeconds <= 60]

----------------------------------------------------------------------------
(* identifyContentGaps.  An object with string keys keeps its keys in      *)
(* insertion order: categories is [keys, count].  A suggestion is the      *)
(* template that produced it with the values it interpolates.              *)

EmptyCategories == [keys |-> <<>>, count |-> EmptyObject]

\* categories[key] = (categories[key] || 0) + 1
incrementCategory(categories, key) ==
  IF key \in DOMAIN categories.count
  THEN [categories EXCEPT !.count[key] = @ + 1]
  ELSE [keys |-> Append(categories.keys, key), count |-> (key :> 1) @@ categories.count]

\* the bucket tests with the Shorts boundary excluded
addToBucketExclusive(durations, durationSeconds) ==
  IF durationSeconds < 60 THEN [durations EXCEPT !.shorts = @ + 1]
  ELSE IF durationSeconds <= 600 THEN [durations EXCEPT !.midForm = @ + 1]
  ELSE [durations EXCEPT !.longForm = @ + 1]

\* the bucket tests with the first else forgotten: a short video is counted twice
addToBucketNoElse(durations, durationSeconds) ==
  LET first == IF durationSeconds <= 60 THEN [durations EXCEPT !.shorts = @ + 1] ELSE durations
  IN  IF durationSeconds <= 600 THEN [first EXCEPT !.midForm = @ + 1]
      ELSE [first EXCEPT !.longForm = @ + 1]

addToBucket(durations, durationSeconds) ==
  IF durationSeconds <= 60 THEN [durations EXCEPT !.shorts = @ + 1]
  ELSE IF durationSeconds <= 600 THEN [durations EXCEPT !.midForm = @ + 1]
  ELSE [durations EXCEPT !.longForm = @ + 1]

\* the key video.category gives: the key "undefined" for a video without one
categoryKey(video) ==
  IF "category" \in DOMAIN video THEN video.category ELSE "undefined"

\* the bucket tests on video.durationSeconds; without the property both
\* undefined <= 60 and undefined <= 600 are false and the else branch counts
addVideoToBucket(durations, video) ==
  IF "durationSeconds" \in DOMAIN video
  THEN addToBucket(durations, video.durationSeconds)
  ELSE [durations EXCEPT !.longForm = @ + 1]

\* the tallies after the forEach has visited the first n videos
RECURSIVE countGaps(_, _)
countGaps(videoDataset, n) ==
  IF n = 0
  THEN [categories |-> EmptyCategories,
        durations |-> [shorts |-> 0, midForm |-> 0, longForm |-> 0]]
  ELSE LET tally == countGaps(videoDataset, n - 1)
           video == videoDataset[n]
       IN  [categories |-> incrementCategory(tally.categories, categoryKey(video)),
            durations |-> addVideoToBucket(tally.durations, video)]

\* the share test with the 10% boundary included
isUnderrepresentedInclusive(count, totalVideos) ==
  RatLeq(RatDiv(Num(count), Num(totalVideos)), Rat(1, 10))

\* (categories[cat] / totalVideos) < 0.1
isUnderrepresented(count, totalVideos) ==
  RatLess(RatDiv(Num(count), Num(totalVideos)), Rat(1, 10))

RECURSIVE filterUnderrepresented(_, _, _)
filterUnderrepresented(keys, categories, totalVideos) ==
  IF keys = <<>> THEN <<>>
  ELSE LET cat == Head(keys)
           rest == filterUnderrepresented(Tail(keys), categories, totalVideos)
       IN  IF isUnderrepresented(categories.count[cat], totalVideos)
           THEN <<cat>> \o rest ELSE rest

ShortsSuggestion(searchQuery) == <<"Consider creating Shorts content about", searchQuery>>

LongFormSuggestion(searchQuery) == <<"Opportunity for in-depth long-form content on", searchQuery>>

CategorySuggestion(category, searchQuery) == <<"Low competition in", category, searchQuery>>

\* the rules with <= in place of <
generateContentSuggestionsInclusive(durations, underrepresentedCategories, searchQuery) ==
  (IF RatLeq(Num(durations.shorts), RatMul(Num(durations.midForm), Rat(3, 10)))
   THEN <<ShortsSuggestion(searchQuery)>> ELSE <<>>)
  \o (IF RatLeq(Num(durations.longForm), RatMul(Num(durations.midForm), Rat(2, 10)))
      THEN <<LongFormSuggestion(searchQuery)>> ELSE <<>>)
  \o [i \in 1..Len(underrepresentedCategories) |->
        CategorySuggestion(underrepresentedCategories[i], searchQuery)]

\* the rules with the long-form rule written before the Shorts rule
generateContentSuggestionsSwapped(durations, underrepresentedCategories, searchQuery) ==
  (IF RatLess(Num(durations.longForm), RatMul(Num(durations.midForm), Rat(2, 10)))
   THEN <<LongFormSuggestion(searchQuery)>> ELSE <<>>)
  \o (IF RatLess(Num(durations.shorts), RatMul(Num(durations.midForm), Rat(3, 10)))
      THEN <<ShortsSuggestion(searchQuery)>> ELSE <<>>)
  \o [i \in 1..Len(underrepresentedCategories) |->
        CategorySuggestion(underrepresentedCategories[i], searchQuery)]

generateContentSuggestions(durations, underrepresentedCategories, searchQuery) ==
  (IF RatLess(Num(durations.shorts), RatMul(Num(durations.midForm), Rat(3, 10)))
   THEN <<ShortsSuggestion(searchQuery)>> ELSE <<>>)
  \o (IF RatLess(Num(durations.longForm), RatMul(Num(durations.midForm), Rat(2, 10)))
      THEN <<LongFormSuggestion(searchQuery)>> ELSE <<>>)
  \o [i \in 1..Len(underrepresentedCategories) |->
        CategorySuggestion(underrepresentedCategories[i], searchQuery)]

identifyContentGaps(videoDataset, searchQuery) ==
  LET tally == countGaps(videoDataset, Len(videoDataset))
      categories == tally.categories
      durations == tally.durations
      totalVideos == Len(videoDataset)
      underrepresentedCategories == filterUnderrepresented(categories.keys, categories, totalVideos)
  IN  [categoryDistribution |-> categories,
       durationDistribution |-> durations,
       underrepresentedCategories |-> underrepresentedCategories,
       suggestions |-> generateContentSuggestions(durations, underrepresentedCategories, searchQuery)]

----------------------------------------------------------------------------
(* calculateShortsMetrics                                                  *)

JSObject(fields) == [type |-> "object", value |-> fields]

\* parseInt(v) || 0: the leading decimal digits of a string, 0 when there are
\* none (parseInt gives NaN) or when v is absent
parseIntOrZero(v) ==
  IF v.type = "string" /\ digitRun(v.value, 1) >= 1
  THEN parseInt(SubSeq(v.value, 1, digitRun(v.value, 1)))
  ELSE IF v.type = "number" THEN v.value
  ELSE 0

defaultShortsMetrics ==
  [engagementRate |-> Num(0), likeRate |-> Num(0), commentRate |-> Num(0),
   viewsPerSecond |-> Num(0), isHighEngagement |-> FALSE]

\* the metrics with the comments left out of the engagement rate
shortsRatesLikesOnly(viewCount, likeCount, commentCount, durationSeconds) ==
  IF viewCount > 0
  THEN LET engagementRate == RatMul(RatDiv(Num(likeCount), Num(viewCount)), Num(100))
       IN  [engagementRate |-> engagementRate,
            likeRate |-> RatMul(RatDiv(Num(likeCount), Num(viewCount)), Num(100)),
            commentRate |-> RatMul(RatDiv(Num(commentCount), Num(viewCount)), Num(100)),
            viewsPerSecond |-> IF durationSeconds > 0
                               THEN RatDiv(Num(viewCount), Num(durationSeconds)) ELSE Num(0),
            isHighEngagement |-> RatLess(Num(2), engagementRate)]
  ELSE defaultShortsMetrics

\* the metrics with likeRate starting at the raw like count instead of 0
shortsRatesRawDefault(viewCount, likeCount, commentCount, durationSeconds) ==
  IF viewCount > 0
  THEN LET engagementRate ==
             RatMul(RatDiv(Num(likeCount + commentCount), Num(viewCount)), Num(100))
       IN  [engagementRate |-> engagementRate,
            likeRate |-> RatMul(RatDiv(Num(likeCount), Num(viewCount)), Num(100)),
            commentRate |-> RatMul(RatDiv(Num(commentCount), Num(viewCount)), Num(100)),
            viewsPerSecond |-> IF durationSeconds > 0
                               THEN RatDiv(Num(viewCount), Num(durationSeconds)) ELSE Num(0),
            isHighEngagement |-> RatLess(Num(2), engagementRate)]
  ELSE [defaultShortsMetrics EXCEPT !.likeRate = Num(likeCount)]

shortsRates(viewCount, likeCount, commentCount, durationSeconds) ==
  IF viewCount > 0
  THEN LET engagementRate ==
             RatMul(RatDiv(Num(likeCount + commentCount), Num(viewCount)), Num(100))
       IN  [engagementRate |-> engagementRate,
            likeRate |-> RatMul(RatDiv(Num(likeCount), Num(viewCount)), Num(100)),
            commentRate |-> RatMul(RatDiv(Num(commentCount), Num(viewCount)), Num(100)),
            viewsPerSecond |-> IF durationSeconds > 0
                               THEN RatDiv(Num(viewCount), Num(durationSeconds)) ELSE Num(0),
            isHighEngagement |-> RatLess(Num(2), engagementRate)]
  ELSE defaultShortsMetrics

\* reading a property of undefined or null throws a TypeError
calculateShortsMetrics(stats, durationSeconds) ==
  IF stats.type \in {"undefined", "null"} THEN Throw("TypeError")
  ELSE Return(shortsRates(parseIntOrZero(stats.value.viewCount),
                          parseIntOrZero(stats.value.likeCount),
                          parseIntOrZero(stats.value.commentCount),
                          durationSeconds))

----------------------------------------------------------------------------
(* calculateVelocityMetrics.  Times are milliseconds since the epoch; a    *)
(* publish timestamp that parses is written as the number of its instant.  *)
(* NaN is the number [n |-> 0, d |-> 0].  toFixed gives the number its     *)
(* string denotes.                                                         *)

NaNValue == [n |-> 0, d |-> 0]

IsNaN(x) == x.d = 0

\* new Date(v).getTime(): NaN (Invalid Date) for an absent or unparseable v
newDate(v) == IF v.type = "number" THEN Num(v.value) ELSE NaNValue

RECURSIVE Pow10(_)
Pow10(k) == IF k = 0 THEN 1 ELSE 10 * Pow10(k - 1)

\* x.toFixed(digits): x rounded to that many decimals, halves away from zero
toFixed(x, digits) ==
  IF IsNaN(x) THEN NaNValue
  ELSE LET scaled == RatMul(x, Num(Pow10(digits)))
           magnitude == (2 * Abs(scaled.n) + scaled.d) \div (2 * scaled.d)
       IN  Rat(IF scaled.n < 0 THEN -magnitude ELSE magnitude, Pow10(digits))

calculateVelocityMetrics(viewCount, publishedAt, now) ==
  LET uploadDate == newDate(publishedAt)
      hoursElapsed == IF IsNaN(uploadDate) THEN NaNValue
                      ELSE RatDiv(RatSub(Num(now), uploadDate), Num(1000 * 60 * 60))
      daysElapsed == IF IsNaN(hoursElapsed) THEN NaNValue
                     ELSE RatDiv(hoursElapsed, Num(24))
  IN  [viewsPerHour |-> IF ~IsNaN(hoursElapsed) /\ RatLess(Num(0), hoursElapsed)
                        THEN toFixed(RatDiv(Num(viewCount), hoursElapsed), 2)
                        ELSE Num(0),
       viewsPerDay |-> IF ~IsNaN(daysElapsed) /\ RatLess(Num(0), daysElapsed)
                       THEN toFixed(RatDiv(Num(viewCount), daysElapsed), 0)
                       ELSE Num(0),
       hoursElapsed |-> toFixed(hoursElapsed, 1),
       daysElapsed |-> toFixed(daysElapsed, 1)]

----------------------------------------------------------------------------
(* extractHashtags                                                         *)

\* `${v}`: a string as it is, undefined and null by their names
templateText(v) ==
  IF v.type = "string" THEN v.value
  ELSE IF v.type = "undefined" THEN <<"u", "n", "d", "e", "f", "i", "n", "e", "d">>
  ELSE <<"n", "u", "l", "l">>

UpperChars == <<"A", "B", "C", "F">>

LowerChars == <<"a", "b", "c", "f">>

\* [\w\u0590-\u05ff]: the letters, digits and underscore in use, and alef
IsHashtagChar(ch) ==
  \/ IsDigit(ch)
  \/ \E i \in 1..Len(UpperChars) : ch = UpperChars[i] \/ ch = LowerChars[i]
  \/ ch \in {"d", "e", "h", "i", "k", "l", "n", "o", "r", "s", "t", "u", "_", "alef"}

toLowerCaseChar(ch) ==
  IF \E i \in 1..Len(UpperChars) : ch = UpperChars[i]
  THEN LowerChars[CHOOSE i \in 1..Len(UpperChars) : ch = UpperChars[i]]
  ELSE ch

toLowerCase(chars) == [i \in 1..Len(chars) |-> toLowerCaseChar(chars[i])]

\* the length of the longest run of hashtag characters that starts at pos
RECURSIVE hashtagRun(_, _)
hashtagRun(chars, pos) ==
  IF pos <= Len(chars) /\ IsHashtagChar(chars[pos]) THEN 1 + hashtagRun(chars, pos + 1) ELSE 0

\* text.match(/#[\w\u0590-\u05ff]+/g) || []: all matches from pos on, in order
RECURSIVE matchHashtags(_, _)
matchHashtags(chars, pos) ==
  IF pos > Len(chars) THEN <<>>
  ELSE IF chars[pos] = "#" /\ hashtagRun(chars, pos + 1) >= 1
  THEN LET k == hashtagRun(chars, pos + 1)
       IN  <<SubSeq(chars, pos, pos + k)>> \o matchHashtags(chars, pos + k + 1)
  ELSE matchHashtags(chars, pos + 1)

\* [...new Set(tags)]: the first occurrence of each tag, in order
RECURSIVE uniqueInOrder(_)
uniqueInOrder(tags) ==
  IF tags = <<>> THEN <<>>
  ELSE LET front == uniqueInOrder(SubSeq(tags, 1, Len(tags) - 1))
           last == tags[Len(tags)]
       IN  IF \E i \in 1..Len(front) : front[i] = last THEN front ELSE Append(front, last)

extractHashtagsDedupeFirst(title, description) ==
  LET text == templateText(title) \o <<" ">> \o templateText(description)
      hashtags == uniqueInOrder(matchHashtags(text, 1))
  IN  [i \in 1..Len(hashtags) |-> toLowerCase(hashtags[i]) \o <<>>]

extractHashtags(title, description) ==
  LET text == templateText(title) \o <<" ">> \o templateText(description)
      hashtags == matchHashtags(text, 1)
  IN  uniqueInOrder([i \in 1..Len(hashtags) |-> toLowerCase(hashtags[i]) \o <<>>])

----------------------------------------------------------------------------
(* YouTubeApiManager.makeApiRequest.  api holds one top-level request: the *)
(* frames of the recursive calls (the retryCount of each and where it      *)
(* stands: about to fetch, or waiting for the call it made in its try or   *)
(* in its catch block), the fetches and sleeps made so far, what each      *)
(* fetch gave, and how the request ended.                                  *)

maxRetries == 3

baseDelay == 1000

maxDelay == 30000

RECURSIVE Pow2(_)
Pow2(k) == IF k = 0 THEN 1 ELSE 2 * Pow2(k - 1)

RateLimitMessage == "Rate limit exceeded. Please try again later."

QuotaMessage == "Daily API quota exceeded. Please try again tomorrow or upgrade your quota."

ForbiddenMessage == "API access forbidden. Please check your API key permissions."

InvalidKeyMessage == "Invalid API key. Please check your YouTube API key configuration."

StatusMessage(responseCode) ==
  IF responseCode = 500 THEN "API request failed with status 500"
  ELSE "API request failed with status 404"

\* what UrlFetchApp.fetch may throw: one message with the word network, one without
ThrownMessages == {"A network error occurred", "Address unavailable"}

\* error.message.includes("network")
includesNetwork(message) == message = "A network error occurred"

canRetryInclusive(retryCount) == retryCount <= maxRetries

\* retryCount < this.maxRetries
canRetry(retryCount) == retryCount < maxRetries

rateLimitDelayLinear(retryCount) ==
  LET delay == baseDelay * (retryCount + 1)
  IN  IF delay < maxDelay THEN delay ELSE maxDelay

\* Math.min(this.baseDelay * Math.pow(2, retryCount), this.maxDelay)
rateLimitDelay(retryCount) ==
  LET delay == baseDelay * Pow2(retryCount)
  IN  IF delay < maxDelay THEN delay ELSE maxDelay

\* this.baseDelay * Math.pow(2, retryCount)
networkDelay(retryCount) == baseDelay * Pow2(retryCount)

shouldRetryAnyError(retryCount, message) == canRetry(retryCount)

\* the condition of the catch block
shouldRetry(retryCount, message) == canRetry(retryCount) /\ includesNetwork(message)

IdleApi ==
  [status |-> "idle", stack |-> <<>>, fetches |-> 0, sleeps |-> <<>>,
   responses |-> <<>>, error |-> ""]

Frame(retryCount, pc) == [retryCount |-> retryCount, pc |-> pc]

Pop(stack) == SubSeq(stack, 1, Len(stack) - 1)

Top(stack) == stack[Len(stack)]

\* the top frame waits in its try or catch block for a new call with retryCount + 1
recurse(a, delay, pc) ==
  LET frame == Top(a.stack)
  IN  [a EXCEPT !.sleeps = Append(@, delay),
                !.stack = Append(Append(Pop(@), Frame(frame.retryCount, pc)),
                                 Frame(frame.retryCount + 1, "fetch"))]

\* an error thrown in the top frame, in its try block or in its catch block:
\* the catch block retries or rethrows to the caller, whose call stands in
\* the caller's try or catch block
RECURSIVE throwError(_, _, _)
throwError(a, message, inTry) ==
  IF a.stack = <<>> THEN [a EXCEPT !.status = "raised", !.error = message]
  ELSE LET frame == Top(a.stack)
       IN  IF inTry /\ shouldRetry(frame.retryCount, message)
           THEN recurse(a, networkDelay(frame.retryCount), "catch")
           ELSE LET caller == Pop(a.stack)
                IN  throwError([a EXCEPT !.stack = caller], message,
                               caller # <<>> /\ Top(caller).pc = "try")

fetched(a, response) ==
  [a EXCEPT !.fetches = @ + 1, !.responses = Append(@, response)]

Response(responseCode, reason) == [code |-> responseCode, detail |-> reason]

Thrown(message) == [code |-> 0, detail |-> message]

----------------------------------------------------------------------------
(* fetchYouTubeData.  run holds one run of the function: where it stands,  *)
(* the stored key and the cells B1 and D1 it reads, the requests it has    *)
(* issued, what it has done to the sheet (cleared, renamed, the statuses   *)
(* written to F1, the Category and Content Type of the rows written), the  *)
(* alerts shown, and the loop's variables.  A number in a cell is a        *)
(* rational.                                                               *)

CellNumber(x) == [type |-> "number", value |-> x]

IdleRun ==
  [pc |-> "idle", storedKey |-> FALSE, searchQuery |-> JSString(<<>>),
   maxResults |-> JSString(<<>>), requests |-> <<>>, cleared |-> FALSE, renamed |-> FALSE,
   f1 |-> <<>>, rows |-> <<>>, alerts |-> <<>>, pageToken |-> FALSE, totalFetched |-> 0,
   totalApiCalls |-> 0, pages |-> 0, page |-> <<>>, allVideoData |-> <<>>,
   analysis |-> <<>>, quotaUsage |-> 0]

Request(kind, batchSize) == [kind |-> kind, batchSize |-> batchSize]

Status(kind, percent, totalFetched, message) ==
  [kind |-> kind, percent |-> percent, totalFetched |-> totalFetched, message |-> message]

\* !searchQuery || searchQuery.toString().trim() === ""
blankSearchQuery(searchQuery) ==
  \/ searchQuery.value = <<>>
  \/ \A i \in 1..Len(searchQuery.value) : searchQuery.value[i] = " "

invalidResultCountOpenEnded(maxResults) ==
  \/ maxResults.type = "string"
  \/ maxResults.type = "number" /\ RatLess(maxResults.value, Num(1))

\* !maxResults || isNaN(maxResults) || maxResults < 1 || maxResults > 200,
\* for an empty cell, a text that is no number, and a number
invalidResultCount(maxResults) ==
  \/ maxResults.type = "string"
  \/ maxResults.type = "number" /\ maxResults.value = Num(0)
  \/ maxResults.type = "number" /\ RatLess(maxResults.value, Num(1))
  \/ maxResults.type = "number" /\ RatLess(Num(200), maxResults.value)

\* Math.min(50, maxResults - totalFetched)
batchSizeOf(maxResults, totalFetched) ==
  MathMin(Num(50), RatSub(maxResults, Num(totalFetched)))

\* Math.round((totalFetched / maxResults) * 100)
progressPercentOf(totalFetched, maxResults) ==
  MathRound(RatMul(RatDiv(Num(totalFetched), maxResults), Num(100)))

\* the catch block of fetchYouTubeData
failRun(r, message) ==
  [r EXCEPT !.f1 = Append(@, Status("error", 0, r.totalFetched, message)),
            !.alerts = Append(@, "An error occurred"),
            !.pc = "done"]

\* parseInt(item.statistics?.x || 0), for counts sent as digits
itemCount(item, name) ==
  IF item.statistics.type = "object" THEN parseIntOrZero(item.statistics.value[name]) ELSE 0

\* the record pushed to allVideoData
allVideoDataRecord(item) ==
  [publishedAt |-> item.publishedAt,
   viewCount |-> itemCount(item, "viewCount"),
   likeCount |-> itemCount(item, "likeCount"),
   commentCount |-> itemCount(item, "commentCount"),
   title |-> item.title,
   channelTitle |-> item.channelTitle]

\* the Category and Content Type columns of the row of a video
rowOf(item) ==
  [category |-> item.category, contentType |-> getContentType(item.duration).type]

\* the map callback throws for this video
rowThrows(item) ==
  calculateShortsMetrics(item.statistics,
                         getContentType(item.duration).durationSeconds).kind = "throw"

\* while (pageToken), after the break on totalFetched >= maxResults
afterPage(totalFetched, maxResults, pageToken) ==
  IF RatLeq(maxResults, Num(totalFetched)) THEN "analysis"
  ELSE IF pageToken THEN "search"
  ELSE "analysis"

dailyQuota == 10000

----------------------------------------------------------------------------
(* Inputs                                                                  *)

ViewCounts == (0..MaxCount) \cup {100, 1000, 1001}

LikeCounts == (0..MaxCount) \cup {10, 50, 200}

CommentCounts == (0..MaxCount) \cup {10, 30}

SubscriberCounts == {0, 5000}

DurationValues == {0, 60, 61, 600, 1200, 1201}

MetricsInputs ==
  [viewCount : ViewCounts, likeCount : LikeCounts, commentCount : CommentCounts,
   subscriberCount : SubscriberCounts, durationSeconds : DurationValues]

TrendVideos == [viewCount : {0, 100}, likeCount : {0, 1, 3}, commentCount : {0, 1}]

\* Sunday 09h, Monday 09h and 18h, Tuesday 09h and 18h, Saturday 00h
PublishedAtValues == {3 * 24 + 9, 4 * 24 + 9, 4 * 24 + 18, 5 * 24 + 9, 5 * 24 + 18, 9 * 24}

UploadVideos == [publishedAt : PublishedAtValues]

\* pieces of duration codes: PT, 1H, 1M, 10M, 1S, a bare digit, a stray letter
DurationChunks ==
  {<<"P", "T">>, <<"1", "H">>, <<"1", "M">>, <<"1", "0", "M">>, <<"1", "S">>, <<"5">>, <<"x">>}

RECURSIVE Concat(_)
Concat(chunks) == IF chunks = <<>> THEN <<>> ELSE Head(chunks) \o Concat(Tail(chunks))

RECURSIVE SeqsUpTo(_, _)
SeqsUpTo(S, n) ==
  IF n = 0 THEN {<<>>}
  ELSE LET shorter == SeqsUpTo(S, n - 1)
       IN  shorter \cup {Append(q, x) : q \in shorter, x \in S}

\* single videos at the bucket boundaries, and blocks of nine equal videos
GapVideos ==
  {[category |-> "Music", durationSeconds |-> 60],
   [category |-> "Music", durationSeconds |-> 61],
   [category |-> "Gaming", durationSeconds |-> 600],
   [category |-> "Gaming", durationSeconds |-> 601],
   [category |-> "Education", durationSeconds |-> 61]}

GapBlockVideos ==
  {[category |-> "Education", durationSeconds |-> 600],
   [category |-> "Education", durationSeconds |-> 60]}

RECURSIVE Repeat(_, _)
Repeat(x, n) == IF n = 0 THEN <<>> ELSE Append(Repeat(x, n - 1), x)

GapRuns ==
  {Repeat(video, 1) : video \in GapVideos}
    \cup {Repeat(video, 9) : video \in GapBlockVideos}

\* up to MaxRuns runs, at most one of them a block
GapDatasets ==
  {Concat(runs) :
     runs \in {r \in SeqsUpTo(GapRuns, MaxRuns) :
                Cardinality({i \in 1..Len(r) : Len(r[i]) > 1}) <= 1}}

SearchQueries == {"cats"}

\* a statistics field as the API sends it: absent, not a number, or digits
StatCountInputs ==
  {JSUndefined, JSString(<<"x">>), JSString(<<"0">>), JSString(<<"1">>), JSString(<<"5">>),
   JSString(<<"1", "0", "0">>), JSString(<<"1", "0", "0", "0">>)}

StatisticsInputs ==
  {JSUndefined}
    \cup {JSObject(fields) :
            fields \in [viewCount : StatCountInputs, likeCount : StatCountInputs,
                        commentCount : StatCountInputs]}

ShortsDurations == {0, 30, 61}

\* the clock at 24 h and 25 h; publish times before, at and after it
NowValues == {86400000, 90000000}

PublishedAtInputs ==
  {JSUndefined, JSString(<<"x">>), JSNumber(0), JSNumber(82800000), JSNumber(86400000),
   JSNumber(88200000), JSNumber(90000000), JSNumber(93600000)}

VelocityViewCounts == {0, 7, 100, 1000}

\* pieces of titles and descriptions: #Foo, #foo, #bar, a space, a word, a bare #
HashtagChunks ==
  {<<"#", "F", "o", "o">>, <<"#", "f", "o", "o">>, <<"#", "b", "a", "r">>,
   <<" ">>, <<"o", "u", "t">>, <<"#">>}

ExampleTitle ==
  <<"C", "h", "e", "c", "k", " ", "#", "F", "o", "o", " ", "o", "u", "t">>

ExampleDescription ==
  <<"A", "l", "s", "o", " ", "#", "f", "o", "o", " ", "a", "n", "d", " ", "#", "b", "a", "r">>

HashtagTextInputs ==
  {JSUndefined, JSString(ExampleTitle), JSString(ExampleDescription)}
    \cup {JSString(Concat(chunks)) : chunks \in SeqsUpTo(HashtagChunks, MaxTagChunks)}

\* cell B1: empty, blank, a search term
SearchQueryInputs == {JSString(<<>>), JSString(<<" ", " ">>), JSString(<<"c", "a", "t", "s">>)}

\* cell D1: empty, a text, numbers outside 1..200, whole numbers inside it
\* (one batch, several batches, more than the batch cap), and a fraction
ResultCountInputs ==
  {JSString(<<>>), JSString(<<"a", "b", "c">>)}
    \cup {CellNumber(Num(i)) : i \in {-1, 0, 201, 1, 2, 3, 51, 200}}
    \cup {CellNumber(Rat(3, 2))}

ItemStatistics ==
  JSObject([viewCount |-> JSString(<<"1", "0", "0">>), likeCount |-> JSString(<<"5">>),
            commentCount |-> JSString(<<"1">>)])

VideoItem(category, duration, statistics, publishedAt) ==
  [category |-> category, duration |-> JSString(duration), statistics |-> statistics,
   publishedAt |-> publishedAt, title |-> "title", channelTitle |-> "channel"]

ShortVideo == VideoItem("Music", <<"P", "T", "3", "0", "S">>, ItemStatistics, 3 * 24 + 9)

MidVideo == VideoItem("Gaming", <<"P", "T", "5", "M">>, ItemStatistics, 4 * 24 + 18)

LongVideo == VideoItem("Music", <<"P", "T", "2", "0", "M">>, ItemStatistics, 4 * 24 + 9)

NoStatisticsVideo == VideoItem("Music", <<"P", "T", "3", "0", "S">>, JSUndefined, 3 * 24 + 9)

\* the items of a page of results
PageChoices ==
  {<<>>, <<ShortVideo>>, <<LongVideo>>, <<ShortVideo, MidVideo>>, <<NoStatisticsVideo>>}

\* how a request of the API manager can fail
ApiFailures == {RateLimitMessage, "A network error occurred"}

\* the usage stored for today before the run
QuotaUsageInputs == {0, 7900}

IsoDurationInputs ==
  {JSUndefined, JSNull, JSNumber(0), JSNumber(90)}
    \cup {JSString(Concat(chunks)) : chunks \in SeqsUpTo(DurationChunks, MaxChunks)}

----------------------------------------------------------------------------
(* The calls                                                               *)

Init ==
  /\ op = "idle"
  /\ args = <<>>
  /\ result = Return(<<>>)
  /\ api = IdleApi
  /\ run = IdleRun

CallCalculateEngagementRate ==
  /\ op = "idle"
  /\ \E views \in ViewCounts, likes \in LikeCounts, comments \in CommentCounts :
       /\ args' = [views |-> views, likes |-> likes, comments |-> comments]
       /\ result' = Return(calculateEngagementRate(views, likes, comments))
  /\ op' = "calculateEngagementRate"
  /\ UNCHANGED <<api, run>>

CallGeneratePerformanceScore ==
  /\ op = "idle"
  /\ \E metrics \in MetricsInputs :
       /\ args' = metrics
       /\ result' = Return(generatePerformanceScore(metrics))
  /\ op' = "generatePerformanceScore"
  /\ UNCHANGED <<api, run>>

CallIdentifyTrendingContent ==
  /\ op = "idle"
  /\ \E videoDataset \in SeqsUpTo(TrendVideos, MaxVideos) :
       /\ args' = [videoDataset |-> videoDataset]
       /\ result' = Return(identifyTrendingContent(videoDataset))
  /\ op' = "identifyTrendingContent"
  /\ UNCHANGED <<api, run>>

CallAnalyzeUploadPatterns ==
  /\ op = "idle"
  /\ \E videoDataset \in SeqsUpTo(UploadVideos, MaxUploads) :
       /\ args' = [videoDataset |-> videoDataset]
       /\ result' = analyzeUploadPatterns(videoDataset)
  /\ op' = "analyzeUploadPatterns"
  /\ UNCHANGED <<api, run>>

CallGetContentType ==
  /\ op = "idle"
  /\ \E isoDuration \in IsoDurationInputs :
       /\ args' = [isoDuration |-> isoDuration]
       /\ result' = Return(getContentType(isoDuration))
  /\ op' = "getContentType"
  /\ UNCHANGED <<api, run>>

CallIdentifyContentGaps ==
  /\ op = "idle"
  /\ \E videoDataset \in GapDatasets, searchQuery \in SearchQueries :
       /\ args' = [videoDataset |-> videoDataset, searchQuery |-> searchQuery]
       /\ result' = Return(identifyContentGaps(videoDataset, searchQuery))
  /\ op' = "identifyContentGaps"
  /\ UNCHANGED <<api, run>>

CallCalculateShortsMetrics ==
  /\ op = "idle"
  /\ \E stats \in StatisticsInputs, durationSeconds \in ShortsDurations :
       /\ args' = [stats |-> stats, durationSeconds |-> durationSeconds]
       /\ result' = calculateShortsMetrics(stats, durationSeconds)
  /\ op' = "calculateShortsMetrics"
  /\ UNCHANGED <<api, run>>

CallCalculateVelocityMetrics ==
  /\ op = "idle"
  /\ \E viewCount \in VelocityViewCounts, publishedAt \in PublishedAtInputs, now \in NowValues :
       /\ args' = [viewCount |-> viewCount, publishedAt |-> publishedAt, now |-> now]
       /\ result' = Return(calculateVelocityMetrics(viewCount, publishedAt, now))
  /\ op' = "calculateVelocityMetrics"
  /\ UNCHANGED <<api, run>>

CallExtractHashtags ==
  /\ op = "idle"
  /\ \E title \in HashtagTextInputs, description \in HashtagTextInputs :
       /\ args' = [title |-> title, description |-> description]
       /\ result' = Return(extractHashtags(title, description))
  /\ op' = "extractHashtags"
  /\ UNCHANGED <<api, run>>

Finish ==
  /\ op # "idle"
  /\ op' = "idle"
  /\ UNCHANGED <<api, run>>
  /\ args' = <<>>
  /\ result' = Return(<<>>)
  /\ UNCHANGED <<api, run>>

Next ==
  \/ CallCalculateEngagementRate
  \/ CallGeneratePerformanceScore
  \/ CallIdentifyTrendingContent
  \/ CallAnalyzeUploadPatterns
  \/ CallGetContentType
  \/ CallIdentifyContentGaps
  \/ CallCalculateShortsMetrics
  \/ CallCalculateVelocityMetrics
  \/ CallExtractHashtags
  \/ Finish

Spec == Init /\ [][Next]_vars

----------------------------------------------------------------------------
(* One top-level makeApiRequest against a server that answers each fetch   *)
(* with a status or lets it throw.                                         *)

AboutToFetch == api.status = "running" /\ Top(api.stack).pc = "fetch"

CallMakeApiRequest ==
  /\ api.status = "idle"
  /\ api' = [IdleApi EXCEPT !.status = "running", !.stack = <<Frame(0, "fetch")>>]
  /\ UNCHANGED <<op, args, result, run>>

\* responseCode === 200: every pending call returns the parsed body
FetchReturns200 ==
  /\ AboutToFetch
  /\ api' = [fetched(api, Response(200, "")) EXCEPT !.status = "returned", !.stack = <<>>]
  /\ UNCHANGED <<op, args, result, run>>

\* responseCode === 429
FetchReturns429 ==
  /\ AboutToFetch
  /\ LET a == fetched(api, Response(429, ""))
          retryCount == Top(api.stack).retryCount
      IN  api' = IF canRetry(retryCount)
                 THEN recurse(a, rateLimitDelay(retryCount), "try")
                 ELSE throwError(a, RateLimitMessage, TRUE)
  /\ UNCHANGED <<op, args, result, run>>

\* responseCode === 403, with or without the reason quotaExceeded
FetchReturns403 ==
  /\ AboutToFetch
  /\ \E reason \in {"quotaExceeded", "forbidden"} :
       api' = throwError(fetched(api, Response(403, reason)),
                         IF reason = "quotaExceeded" THEN QuotaMessage ELSE ForbiddenMessage,
                         TRUE)
  /\ UNCHANGED <<op, args, result, run>>

\* responseCode === 401
FetchReturns401 ==
  /\ AboutToFetch
  /\ api' = throwError(fetched(api, Response(401, "")), InvalidKeyMessage, TRUE)
  /\ UNCHANGED <<op, args, result, run>>

\* any other status
FetchReturnsOtherStatus ==
  /\ AboutToFetch
  /\ \E responseCode \in {404, 500} :
       api' = throwError(fetched(api, Response(responseCode, "")),
                         StatusMessage(responseCode), TRUE)
  /\ UNCHANGED <<op, args, result, run>>

\* UrlFetchApp.fetch throws
FetchThrows ==
  /\ AboutToFetch
  /\ \E message \in ThrownMessages :
       api' = throwError(fetched(api, Thrown(message)), message, TRUE)
  /\ UNCHANGED <<op, args, result, run>>

FinishApi ==
  /\ api.status \in {"returned", "raised"}
  /\ api' = IdleApi
  /\ UNCHANGED <<op, args, result, run>>

NextApi ==
  \/ CallMakeApiRequest
  \/ FetchReturns200
  \/ FetchReturns429
  \/ FetchReturns403
  \/ FetchReturns401
  \/ FetchReturnsOtherStatus
  \/ FetchThrows
  \/ FinishApi

SpecApi == Init /\ [][NextApi]_vars

\* every fetch is answered and every finished request is handed back
FairSpecApi == SpecApi /\ WF_vars(NextApi)

----------------------------------------------------------------------------
(* One run of fetchYouTubeData, statement by statement; each request of    *)
(* the API manager returns its data or raises.                             *)

OtherUnchanged == UNCHANGED <<op, args, result, api>>

\* the menu item is chosen: the store holds a key or not, B1 and D1 hold a value
StartFetchYouTubeData ==
  /\ run.pc = "idle"
  /\ \E storedKey \in BOOLEAN, searchQuery \in SearchQueryInputs, maxResults \in ResultCountInputs :
       run' = [IdleRun EXCEPT !.pc = "getApiKey", !.storedKey = storedKey,
                              !.searchQuery = searchQuery, !.maxResults = maxResults]
  /\ OtherUnchanged

GetApiKeyUnchecked ==
  /\ run.pc = "getApiKey"
  /\ run' = [run EXCEPT !.pc = "validateApiKey"]
  /\ OtherUnchanged

\* getApiKeyFromProperties, and if (!apiKey) return
GetApiKey ==
  /\ run.pc = "getApiKey"
  /\ run' = IF run.storedKey
             THEN [run EXCEPT !.pc = "validateApiKey"]
             ELSE [run EXCEPT !.alerts = Append(@, "API Key is not configured"), !.pc = "done"]
  /\ OtherUnchanged

\* validateApiKey: one test request; any answer but 200 is an invalid key
ValidateApiKey ==
  /\ run.pc = "validateApiKey"
  /\ \E valid \in BOOLEAN :
       LET r == [run EXCEPT !.requests = Append(@, Request("validate", Num(1)))]
       IN  run' = IF valid
                  THEN [r EXCEPT !.pc = "validateInputs"]
                  ELSE [r EXCEPT !.alerts = Append(@, "Invalid API key"), !.pc = "done"]
  /\ OtherUnchanged

\* the two input checks
ValidateInputs ==
  /\ run.pc = "validateInputs"
  /\ run' = IF blankSearchQuery(run.searchQuery)
             THEN [run EXCEPT !.alerts = Append(@, "Search Term Required"), !.pc = "done"]
             ELSE IF invalidResultCount(run.maxResults)
             THEN [run EXCEPT !.alerts = Append(@, "Invalid Result Count"), !.pc = "done"]
             ELSE [run EXCEPT !.pc = "initialize"]
  /\ OtherUnchanged

\* clearSheetDataExceptA1, renameSheet, the initializing status, the headers
InitializeSheet ==
  /\ run.pc = "initialize"
  /\ run' = [run EXCEPT !.cleared = TRUE, !.renamed = TRUE,
                         !.f1 = Append(@, Status("initializing", 0, 0, "")),
                         !.pc = "search"]
  /\ OtherUnchanged

\* searchVideos with the batch size of this round; the list of results is
\* finite, so the last page that can be asked for has no nextPageToken
SearchVideos ==
  /\ run.pc = "search"
  /\ LET batchSize == batchSizeOf(run.maxResults.value, run.totalFetched)
          r == [run EXCEPT !.requests = Append(@, Request("search", batchSize))]
      IN  \/ \E message \in ApiFailures : run' = failRun(r, message)
          \/ \E items \in PageChoices, nextPageToken \in BOOLEAN :
               /\ RatLeq(Num(Len(items)), batchSize)
               /\ (run.pages + 1 >= MaxPages \/ items = <<>>) => ~nextPageToken
               /\ run' = [r EXCEPT !.pageToken = nextPageToken, !.page = items,
                                    !.pages = @ + 1,
                                    !.pc = IF items = <<>> THEN "analysis" ELSE "videoDetails"]
  /\ OtherUnchanged

GetVideoDetails ==
  /\ run.pc = "videoDetails"
  /\ LET r == [run EXCEPT !.requests = Append(@, Request("videos", Num(Len(run.page))))]
      IN  \/ \E message \in ApiFailures : run' = failRun(r, message)
          \/ run' = [r EXCEPT !.pc = "channelDetails"]
  /\ OtherUnchanged

GetChannelDetails ==
  /\ run.pc = "channelDetails"
  /\ LET r == [run EXCEPT !.requests = Append(@, Request("channels", Num(Len(run.page))))]
      IN  \/ \E message \in ApiFailures : run' = failRun(r, message)
          \/ run' = [r EXCEPT !.totalApiCalls = @ + 3, !.pc = "processPage"]
  /\ OtherUnchanged

\* the rows of the page, the records for the analysis, the progress status
ProcessPage ==
  /\ run.pc = "processPage"
  /\ LET items == run.page
          totalFetched == run.totalFetched + Len(items)
          maxResults == run.maxResults.value
      IN  run' = IF \E i \in 1..Len(items) : rowThrows(items[i])
                 THEN failRun(run, "TypeError")
                 ELSE [run EXCEPT
                         !.allVideoData = @ \o [i \in 1..Len(items) |-> allVideoDataRecord(items[i])],
                         !.rows = @ \o [i \in 1..Len(items) |-> rowOf(items[i])],
                         !.totalFetched = totalFetched,
                         !.f1 = Append(@, Status("progress",
                                                 progressPercentOf(totalFetched, maxResults),
                                                 totalFetched, "")),
                         !.pc = afterPage(totalFetched, maxResults, run.pageToken)]
  /\ OtherUnchanged

\* the content analysis, the completed status, monitorQuotaUsage
AnalyzeContent ==
  /\ run.pc = "analysis"
  /\ \E currentUsage \in QuotaUsageInputs :
       LET contentGaps == identifyContentGaps(run.allVideoData, run.searchQuery.value)
           uploadPatterns == analyzeUploadPatterns(run.allVideoData)
           newUsage == currentUsage + run.totalApiCalls * 100
       IN  run' = IF uploadPatterns.kind = "throw"
                  THEN failRun(run, uploadPatterns.error)
                  ELSE [run EXCEPT
                          !.analysis = <<[contentGaps |-> contentGaps,
                                          uploadPatterns |-> uploadPatterns.val]>>,
                          !.f1 = Append(@, Status("completed", 100, run.totalFetched, "")),
                          !.quotaUsage = newUsage,
                          !.alerts = IF newUsage * 10 > dailyQuota * 8
                                     THEN Append(@, "Quota Warning") ELSE @,
                          !.pc = "done"]
  /\ OtherUnchanged

FinishRun ==
  /\ run.pc = "done"
  /\ run' = IdleRun
  /\ OtherUnchanged

NextFetch ==
  \/ StartFetchYouTubeData
  \/ GetApiKey
  \/ ValidateApiKey
  \/ ValidateInputs
  \/ InitializeSheet
  \/ SearchVideos
  \/ GetVideoDetails
  \/ GetChannelDetails
  \/ ProcessPage
  \/ AnalyzeContent
  \/ FinishRun

SpecFetch == Init /\ [][NextFetch]_vars

----------------------------------------------------------------------------
(* Claims about the performance score and the engagement rate              *)

\* C1: for non-negative integer view, like and comment counts and duration,
\* generatePerformanceScore returns an integer between 0 and 100 inclusive.
C1_ScoreInRange ==
  op = "generatePerformanceScore" =>
    /\ result.kind = "return"
    /\ result.val \in 0..100

\* the score reaches its upper end: every term saturated, no duration penalty
C1_Witness ==
  /\ op = "generatePerformanceScore"
  /\ args.viewCount > 1000
  /\ result.val = 100

\* C2: with viewCount > 0 and the other inputs fixed, a larger likeCount or a
\* larger commentCount never gives a lower score.
C2_ScoreMonotone ==
  (op = "generatePerformanceScore" /\ args.viewCount > 0) =>
    /\ \A likes2 \in LikeCounts :
         likes2 >= args.likeCount =>
           generatePerformanceScore([args EXCEPT !.likeCount = likes2]) >= result.val
    /\ \A comments2 \in CommentCounts :
         comments2 >= args.commentCount =>
           generatePerformanceScore([args EXCEPT !.commentCount = comments2]) >= result.val

\* a call whose score strictly rises when likes rise, and when comments rise
C2_Witness ==
  /\ op = "generatePerformanceScore"
  /\ args.viewCount > 0
  /\ \E likes2 \in LikeCounts :
       /\ likes2 > args.likeCount
       /\ generatePerformanceScore([args EXCEPT !.likeCount = likes2]) > result.val
  /\ \E comments2 \in CommentCounts :
       /\ comments2 > args.commentCount
       /\ generatePerformanceScore([args EXCEPT !.commentCount = comments2]) > result.val

\* C3: calculateEngagementRate returns 0 when views is 0 and otherwise
\* (likes + comments) / views * 100; for (1000, 50, 10) it returns exactly 6.
C3_EngagementRate ==
  op = "calculateEngagementRate" =>
    /\ result.kind = "return"
    /\ args.views = 0 => (result.val.n = 0 /\ result.val.d = 1)
    /\ args.views # 0 =>
         result.val.n * args.views = 100 * (args.likes + args.comments) * result.val.d
    /\ (args.views = 1000 /\ args.likes = 50 /\ args.comments = 10) =>
         (result.val.n = 6 /\ result.val.d = 1)

\* the worked example has been computed
C3_Witness ==
  /\ op = "calculateEngagementRate"
  /\ args.views = 1000 /\ args.likes = 50 /\ args.comments = 10
  /\ result.val.n = 6

\* indexes of the videos whose rate reaches the threshold, stated on the counts
C4_KeptIndexes(ds) ==
  {i \in 1..Len(ds) :
     /\ ds[i].viewCount # 0
     /\ 100 * (ds[i].likeCount + ds[i].commentCount) >= 2 * ds[i].viewCount}

\* C4: identifyTrendingContent returns exactly the videos whose engagement
\* rate is >= 2.0, in input order, none added and none duplicated.
C4_TrendingFilter ==
  op = "identifyTrendingContent" =>
    LET ds == args.videoDataset
        r == result.val
        kept == C4_KeptIndexes(ds)
    IN  /\ result.kind = "return"
        /\ Len(r) = Cardinality(kept)
        /\ \E f \in [1..Len(r) -> kept] :
             /\ \A j, k \in 1..Len(r) : j < k => f[j] < f[k]
             /\ \A j \in 1..Len(r) : r[j] = ds[f[j]]

\* the boundary video (rate exactly 2.0) is kept, a video below it dropped
C4_Witness ==
  /\ op = "identifyTrendingContent"
  /\ Len(args.videoDataset) = 3
  /\ args.videoDataset[1] = [viewCount |-> 100, likeCount |-> 0, commentCount |-> 1]
  /\ args.videoDataset[2] = [viewCount |-> 100, likeCount |-> 1, commentCount |-> 1]
  /\ args.videoDataset[3] = [viewCount |-> 100, likeCount |-> 3, commentCount |-> 0]
  /\ result.val = <<args.videoDataset[2], args.videoDataset[3]>>

----------------------------------------------------------------------------
(* Claims about analyzeUploadPatterns                                      *)

\* the number of videos of a dataset published on weekday d / in hour h
UploadsOnDay(ds, d) == Cardinality({i \in 1..Len(ds) : getDay(ds[i].publishedAt) = d})

UploadsInHour(ds, h) == Cardinality({i \in 1..Len(ds) : getHours(ds[i].publishedAt) = h})

BusiestDays(ds) ==
  {d \in 0..6 : UploadsOnDay(ds, d) > 0 /\ \A e \in 0..6 : UploadsOnDay(ds, e) <= UploadsOnDay(ds, d)}

BusiestHours(ds) ==
  {h \in 0..23 : UploadsInHour(ds, h) > 0 /\ \A e \in 0..23 : UploadsInHour(ds, e) <= UploadsInHour(ds, h)}

\* C5 as stated: on a tie for the maximum count the smallest tied key is chosen.
C5_TieKeepsSmallestKey ==
  (op = "analyzeUploadPatterns" /\ result.kind = "return") =>
    LET ds == args.videoDataset
    IN  /\ \A d \in BusiestDays(ds) :
             (\A e \in BusiestDays(ds) : d <= e) => result.val.bestUploadDay = dayNames[d + 1]
        /\ \A h \in BusiestHours(ds) :
             (\A e \in BusiestHours(ds) : h <= e) => result.val.bestUploadHour[1] = h

\* C5 amended: on a tie for the maximum count the largest tied key is chosen
\* (the reducer replaces the kept key by the later one when counts are equal).
C5_TieKeepsLargestKey ==
  (op = "analyzeUploadPatterns" /\ result.kind = "return") =>
    LET ds == args.videoDataset
    IN  /\ \A d \in BusiestDays(ds) :
             (\A e \in BusiestDays(ds) : e <= d) => result.val.bestUploadDay = dayNames[d + 1]
        /\ \A h \in BusiestHours(ds) :
             (\A e \in BusiestHours(ds) : e <= h) => result.val.bestUploadHour[1] = h

\* two weekdays and two hours tie for the maximum, and the later ones win
C5_Witness ==
  /\ op = "analyzeUploadPatterns"
  /\ result.kind = "return"
  /\ Cardinality(BusiestDays(args.videoDataset)) >= 2
  /\ Cardinality(BusiestHours(args.videoDataset)) >= 2
  /\ result.val.bestUploadDay = "Tuesday"
  /\ result.val.bestUploadHour[1] = 18

\* C6: analyzeUploadPatterns called with no videos returns a result and does
\* not raise.
C6_EmptyDatasetReturns ==
  (op = "analyzeUploadPatterns" /\ args.videoDataset = <<>>) => result.kind = "return"

\* C7: for a dataset of at least one video, bestUploadDay is a weekday name
\* whose weekday has the maximum count in dayDistribution, and bestUploadHour
\* is H:00 for an hour H with the maximum count in hourDistribution.
C7_BestIsMaximum ==
  (op = "analyzeUploadPatterns" /\ Len(args.videoDataset) >= 1) =>
    /\ result.kind = "return"
    /\ LET r == result.val
        IN  /\ \E d \in 0..6 :
                 /\ r.bestUploadDay = dayNames[d + 1]
                 /\ d \in DOMAIN r.dayDistribution
                 /\ \A e \in DOMAIN r.dayDistribution :
                      r.dayDistribution[e] <= r.dayDistribution[d]
            /\ \E h \in 0..23 :
                 /\ r.bestUploadHour = <<h, ":00">>
                 /\ h \in DOMAIN r.hourDistribution
                 /\ \A e \in DOMAIN r.hourDistribution :
                      r.hourDistribution[e] <= r.hourDistribution[h]
            /\ \A d \in 0..6 :
                 IF UploadsOnDay(args.videoDataset, d) = 0
                 THEN d \notin DOMAIN r.dayDistribution
                 ELSE d \in DOMAIN r.dayDistribution
                      /\ r.dayDistribution[d] = UploadsOnDay(args.videoDataset, d)

\* three Monday videos and one Tuesday video give Monday
C7_Witness ==
  /\ op = "analyzeUploadPatterns"
  /\ Len(args.videoDataset) = 4
  /\ UploadsOnDay(args.videoDataset, 1) = 3
  /\ UploadsOnDay(args.videoDataset, 2) = 1
  /\ args.videoDataset[1].publishedAt = 5 * 24 + 9
  /\ result.kind = "return"
  /\ result.val.bestUploadDay = "Monday"

----------------------------------------------------------------------------
(* Claims about getContentType                                             *)

\* chars[from..to] is empty or is one or more digits followed by unit
IsComponent(chars, from, to, unit) ==
  \/ to = from - 1
  \/ /\ to > from
     /\ chars[to] = unit
     /\ \A k \in from..(to - 1) : IsDigit(chars[k])

ComponentValue(chars, from, to) ==
  IF to < from THEN 0 ELSE parseInt(SubSeq(chars, from, to - 1))

\* the ways to cut chars into PT, hours, minutes and seconds components
CodeSplits(chars) ==
  IF Len(chars) < 2 \/ SubSeq(chars, 1, 2) # <<"P", "T">> THEN {}
  ELSE {cut \in (2..Len(chars)) \X (2..Len(chars)) :
          /\ cut[1] <= cut[2]
          /\ IsComponent(chars, 3, cut[1], "H")
          /\ IsComponent(chars, cut[1] + 1, cut[2], "M")
          /\ IsComponent(chars, cut[2] + 1, Len(chars), "S")}

\* v is a string of the form PT[nH][nM][nS]
IsDurationCode(v) == v.type = "string" /\ CodeSplits(v.value) # {}

\* C8: getContentType returns Unknown with 0 seconds for every input that is
\* absent, not a string or not of the form PT[nH][nM][nS], and one of Shorts,
\* Mid-form, Long-form for every input of that form.
C8_UnknownIffNotDurationCode ==
  op = "getContentType" =>
    /\ result.kind = "return"
    /\ IF IsDurationCode(args.isoDuration)
       THEN result.val.type \in {"Shorts", "Mid-form", "Long-form"}
       ELSE result.val.type = "Unknown" /\ result.val.durationSeconds = 0

\* C9: for a valid code the parsed durationSeconds is hours*3600 + minutes*60
\* + seconds, absent components counting 0; for any other input it is 0; no
\* input makes the call raise.
C9_DurationSeconds ==
  op = "getContentType" =>
    /\ result.kind = "return"
    /\ IF IsDurationCode(args.isoDuration)
       THEN \A cut \in CodeSplits(args.isoDuration.value) :
              result.val.durationSeconds =
                ComponentValue(args.isoDuration.value, 3, cut[1]) * 3600
                + ComponentValue(args.isoDuration.value, cut[1] + 1, cut[2]) * 60
                + ComponentValue(args.isoDuration.value, cut[2] + 1, Len(args.isoDuration.value))
       ELSE result.val.durationSeconds = 0

\* C10: a parsed duration of s seconds is Shorts when s <= 60, Mid-form when
\* 60 < s <= 600 and Long-form when s > 600; PT1M (60) is Shorts, PT1M1S (61)
\* and PT10M (600) are Mid-form, PT10M1S (601) is Long-form.
C10_ClassifierThresholds ==
  op = "getContentType" =>
    LET r == result.val
        IsCode(chars) == args.isoDuration.type = "string" /\ args.isoDuration.value = chars
    IN  /\ r.type # "Unknown" =>
             /\ r.type = "Shorts" <=> r.durationSeconds <= 60
             /\ r.type = "Mid-form" <=> (60 < r.durationSeconds /\ r.durationSeconds <= 600)
             /\ r.type = "Long-form" <=> r.durationSeconds > 600
        /\ IsCode(<<"P", "T", "1", "M">>) => (r.durationSeconds = 60 /\ r.type = "Shorts")
        /\ IsCode(<<"P", "T", "1", "M", "1", "S">>) =>
             (r.durationSeconds = 61 /\ r.type = "Mid-form")
        /\ IsCode(<<"P", "T", "1", "0", "M">>) => (r.durationSeconds = 600 /\ r.type = "Mid-form")
        /\ IsCode(<<"P", "T", "1", "0", "M", "1", "S">>) =>
             (r.durationSeconds = 601 /\ r.type = "Long-form")

\* the upper boundary case has been classified
C10_Witness ==
  /\ op = "getContentType"
  /\ args.isoDuration.type = "string"
  /\ args.isoDuration.value = <<"P", "T", "1", "0", "M", "1", "S">>
  /\ result.val.type = "Long-form"
  /\ result.val.durationSeconds = 601

----------------------------------------------------------------------------
(* Claims about identifyContentGaps                                        *)

\* the videos of a dataset that getContentType's classifier gives a type
ClassifiedAs(ds, type) ==
  {i \in 1..Len(ds) : classifyDuration(ds[i].durationSeconds).type = type}

\* the videos of a dataset in a category
InCategory(ds, cat) == {i \in 1..Len(ds) : ds[i].category = cat}

CategoriesOf(ds) == {ds[i].category : i \in 1..Len(ds)}

RECURSIVE SumOfCounts(_, _)
SumOfCounts(keys, count) ==
  IF keys = <<>> THEN 0 ELSE count[Head(keys)] + SumOfCounts(Tail(keys), count)

\* C11: identifyContentGaps counts every video in the bucket that the
\* classifier of getContentType gives its durationSeconds.
C11_BucketsMatchClassifier ==
  op = "identifyContentGaps" =>
    LET ds == args.videoDataset
        dd == result.val.durationDistribution
    IN  /\ dd.shorts = Cardinality(ClassifiedAs(ds, "Shorts"))
        /\ dd.midForm = Cardinality(ClassifiedAs(ds, "Mid-form"))
        /\ dd.longForm = Cardinality(ClassifiedAs(ds, "Long-form"))

\* a dataset holding all four boundary durations has been analysed
C11_Witness ==
  /\ op = "identifyContentGaps"
  /\ {60, 61, 600, 601} \subseteq
       {args.videoDataset[i].durationSeconds : i \in 1..Len(args.videoDataset)}
  /\ result.val.durationDistribution = [shorts |-> 1, midForm |-> 2, longForm |-> 1]

\* C12: for a dataset of N videos shorts + midForm + longForm = N and the
\* counts of categoryDistribution sum to N.
C12_DistributionsSumToN ==
  op = "identifyContentGaps" =>
    LET N == Len(args.videoDataset)
        dd == result.val.durationDistribution
        cd == result.val.categoryDistribution
    IN  /\ dd.shorts + dd.midForm + dd.longForm = N
        /\ SumOfCounts(cd.keys, cd.count) = N

\* eleven or more videos spread over all three buckets and several categories
C12_Witness ==
  /\ op = "identifyContentGaps"
  /\ Len(args.videoDataset) >= 11
  /\ result.val.durationDistribution.shorts >= 1
  /\ result.val.durationDistribution.midForm >= 1
  /\ result.val.durationDistribution.longForm >= 1
  /\ Len(result.val.categoryDistribution.keys) >= 2

\* C13: on an empty dataset identifyContentGaps does not raise and returns no
\* underrepresented category and no suggestion.
C13_EmptyDatasetNoSuggestions ==
  (op = "identifyContentGaps" /\ args.videoDataset = <<>>) =>
    /\ result.kind = "return"
    /\ result.val.underrepresentedCategories = <<>>
    /\ result.val.suggestions = <<>>

\* the empty dataset has been analysed
C13_Witness ==
  /\ op = "identifyContentGaps"
  /\ Len(args.videoDataset) = 0
  /\ result.kind = "return"
  /\ result.val.durationDistribution = [shorts |-> 0, midForm |-> 0, longForm |-> 0]

\* C14: suggestions is the Shorts suggestion iff shorts < midForm * 0.3, then
\* the long-form suggestion iff longForm < midForm * 0.2, then one suggestion
\* per underrepresented category in that list's order, for the query given.
C14_SuggestionRules ==
  op = "identifyContentGaps" =>
    LET dd == result.val.durationDistribution
        under == result.val.underrepresentedCategories
        sugg == result.val.suggestions
        q == args.searchQuery
        first == IF 10 * dd.shorts < 3 * dd.midForm THEN 1 ELSE 0
        second == IF 10 * dd.longForm < 2 * dd.midForm THEN 1 ELSE 0
    IN  /\ Len(sugg) = first + second + Len(under)
        /\ first = 1 => sugg[1] = ShortsSuggestion(q)
        /\ second = 1 => sugg[first + 1] = LongFormSuggestion(q)
        /\ \A i \in 1..Len(under) : sugg[first + second + i] = CategorySuggestion(under[i], q)

\* both duration rules fire and two categories are underrepresented
C14_Witness ==
  /\ op = "identifyContentGaps"
  /\ Len(result.val.suggestions) = 4
  /\ result.val.suggestions[1] = ShortsSuggestion(args.searchQuery)
  /\ result.val.suggestions[2] = LongFormSuggestion(args.searchQuery)
  /\ result.val.underrepresentedCategories = <<"Music", "Gaming">>

\* C15: underrepresentedCategories holds exactly the categories of the dataset
\* whose share of the videos is strictly below 10%, each once.
C15_UnderrepresentedBelowTenPercent ==
  op = "identifyContentGaps" =>
    LET ds == args.videoDataset
        under == result.val.underrepresentedCategories
    IN  /\ {under[i] : i \in 1..Len(under)} =
             {cat \in CategoriesOf(ds) : 10 * Cardinality(InCategory(ds, cat)) < Len(ds)}
        /\ \A i, j \in 1..Len(under) : under[i] = under[j] => i = j

\* one video of eleven is in Music, which is listed; Education is not
C15_Witness ==
  /\ op = "identifyContentGaps"
  /\ Len(args.videoDataset) = 11
  /\ Cardinality(InCategory(args.videoDataset, "Music")) = 1
  /\ Cardinality(InCategory(args.videoDataset, "Education")) = 10
  /\ result.val.underrepresentedCategories = <<"Music">>

----------------------------------------------------------------------------
(* Claims about calculateShortsMetrics                                     *)

\* C16: the engagementRate of calculateShortsMetrics equals what
\* calculateEngagementRate gives for the same view, like and comment counts,
\* so both give the same verdict against the trending threshold.
C16_SameEngagementRate ==
  (op = "calculateShortsMetrics" /\ result.kind = "return") =>
    LET views == parseIntOrZero(args.stats.value.viewCount)
        likes == parseIntOrZero(args.stats.value.likeCount)
        comments == parseIntOrZero(args.stats.value.commentCount)
    IN  /\ result.val.engagementRate = calculateEngagementRate(views, likes, comments)
        /\ RatLeq(Num(trendingThreshold), result.val.engagementRate)
             <=> isTrending([viewCount |-> views, likeCount |-> likes, commentCount |-> comments])

\* a video exactly on the threshold, with likes and comments both counted
C16_Witness ==
  /\ op = "calculateShortsMetrics"
  /\ result.kind = "return"
  /\ parseIntOrZero(args.stats.value.viewCount) = 100
  /\ parseIntOrZero(args.stats.value.likeCount) = 1
  /\ parseIntOrZero(args.stats.value.commentCount) = 1
  /\ result.val.engagementRate = Num(2)

----------------------------------------------------------------------------
(* Claims about the per-video functions together                           *)

\* C18: no per-video function raises on bad data: getContentType gives
\* unknown content for a duration that is absent or not a duration code,
\* extractHashtags gives no hashtags when title and description are absent,
\* calculateShortsMetrics gives the zero metrics when the statistics object is
\* absent, and calculateVelocityMetrics gives zero velocities when the publish
\* timestamp is absent or malformed.
C18_SafeDefaultsOnBadData ==
  /\ (op = "getContentType" /\ ~IsDurationCode(args.isoDuration)) =>
       result = Return(UnknownContent)
  /\ (op = "extractHashtags" /\ args.title = JSUndefined /\ args.description = JSUndefined) =>
       result = Return(<<>>)
  /\ (op = "calculateShortsMetrics" /\ args.stats.type # "object") =>
       result = Return(defaultShortsMetrics)
  /\ (op = "calculateVelocityMetrics" /\ args.publishedAt.type # "number") =>
       /\ result.kind = "return"
       /\ result.val.viewsPerHour = Num(0)
       /\ result.val.viewsPerDay = Num(0)

\* C19: calculateVelocityMetrics gives viewsPerHour 0 and viewsPerDay 0 when
\* no time has elapsed since the upload or the upload lies in the future, and
\* no field of its result is negative or infinite.
C19_VelocityNeverNegative ==
  (op = "calculateVelocityMetrics" /\ result.kind = "return") =>
    LET r == result.val
        fields == {r.viewsPerHour, r.viewsPerDay, r.hoursElapsed, r.daysElapsed}
    IN  /\ (args.publishedAt.type = "number" /\ args.now <= args.publishedAt.value) =>
             (r.viewsPerHour = Num(0) /\ r.viewsPerDay = Num(0))
        /\ \A f \in fields : f.n >= 0 /\ ~(f.d = 0 /\ f.n # 0)

\* C20: subscriberCount has no effect on generatePerformanceScore.
C20_SubscriberCountIgnored ==
  (op = "generatePerformanceScore" /\ result.kind = "return") =>
    \A subscriberCount \in SubscriberCounts :
      generatePerformanceScore([args EXCEPT !.subscriberCount = subscriberCount]) = result.val

\* a channel with subscribers, a video under the view bonus, a score above 0
C20_Witness ==
  /\ op = "generatePerformanceScore"
  /\ result.kind = "return"
  /\ args.subscriberCount = 5000
  /\ args.viewCount = 100
  /\ result.val > 0
  /\ result.val < 100

----------------------------------------------------------------------------
(* Claims about extractHashtags                                            *)

\* the hashtag tokens of a text: a # followed by a longest run of one or more
\* hashtag characters
HashtagTokens(chars) ==
  {SubSeq(chars, p, q) : <<p, q>> \in
     {pq \in (1..Len(chars)) \X (1..Len(chars)) :
        /\ chars[pq[1]] = "#"
        /\ pq[2] > pq[1]
        /\ \A i \in (pq[1] + 1)..pq[2] : IsHashtagChar(chars[i])
        /\ (pq[2] = Len(chars) \/ ~IsHashtagChar(chars[pq[2] + 1]))}}

\* C21: extractHashtags returns the lower-cased hashtag tokens of title and
\* description, each once however it was capitalised, and an empty list when
\* there is none; for "Check #Foo out" and "Also #foo and #bar" it returns
\* exactly #foo and #bar.
C21_LowerCasedUniqueHashtags ==
  op = "extractHashtags" =>
    LET tokens == HashtagTokens(templateText(args.title))
                    \cup HashtagTokens(templateText(args.description))
        tags == result.val
    IN  /\ result.kind = "return"
        /\ {tags[i] : i \in 1..Len(tags)} = {toLowerCase(t) \o <<>> : t \in tokens}
        /\ \A i, j \in 1..Len(tags) : tags[i] = tags[j] => i = j
        /\ tokens = {} => tags = <<>>
        /\ (args.title = JSString(ExampleTitle) /\ args.description = JSString(ExampleDescription))
             => tags = <<(<<"#", "f", "o", "o">>), (<<"#", "b", "a", "r">>)>>

\* the example call: #Foo and #foo collapse into one #foo
C21_Witness ==
  /\ op = "extractHashtags"
  /\ args.title = JSString(ExampleTitle)
  /\ args.description = JSString(ExampleDescription)
  /\ result = Return(<<(<<"#", "f", "o", "o">>), (<<"#", "b", "a", "r">>)>>)

----------------------------------------------------------------------------
(* Claims about makeApiRequest                                             *)

\* C23: one top-level makeApiRequest performs at most maxRetries + 1 = 4
\* fetches, however 429 replies and thrown network errors are mixed.
C23_AtMostFourFetches == api.fetches <= maxRetries + 1

OnlyRateLimited == \A i \in 1..Len(api.responses) : api.responses[i].code = 429

ApiDone == api.status \in {"returned", "raised"}

\* C25: every makeApiRequest ends, returning after a 200 response or raising
\* an error, whatever the server answers, and never stands more than
\* maxRetries + 1 calls deep.
C25_RequestTerminates ==
  /\ [](Len(api.stack) <= maxRetries + 1)
  /\ [](api.status = "returned" => api.responses[Len(api.responses)].code = 200)
  /\ [](api.status = "raised" => api.error # "")
  /\ (api.status = "running") ~> ApiDone

\* the longest request there is has ended: fifteen fetches, then the error
C25_Witness ==
  /\ api.status = "raised"
  /\ api.fetches = 15
  /\ includesNetwork(api.error)

ErrorStatusMessage(response) ==
  IF response.code = 401 THEN InvalidKeyMessage
  ELSE IF response.code = 403
       THEN (IF response.detail = "quotaExceeded" THEN QuotaMessage ELSE ForbiddenMessage)
       ELSE StatusMessage(response.code)

\* C26: a response with status 401, 403 or any status other than 200 and 429
\* makes makeApiRequest raise its error at once: it is the last fetch of the
\* request, and no sleep follows it.
C26_ErrorStatusRaisesAtOnce ==
  \A i \in 1..Len(api.responses) :
    api.responses[i].code \notin {0, 200, 429} =>
      /\ i = Len(api.responses)
      /\ api.status = "raised"
      /\ api.error = ErrorStatusMessage(api.responses[i])
      /\ Len(api.sleeps) = i - 1

\* a 401 that follows a rate-limited first attempt: raised with one sleep behind it
C26_Witness ==
  /\ api.responses = <<Response(429, ""), Response(401, "")>>
  /\ api.status = "raised"
  /\ api.error = InvalidKeyMessage
  /\ api.sleeps = <<1000>>

----------------------------------------------------------------------------
(* Claims about fetchYouTubeData                                           *)

SheetUntouched ==
  /\ ~run.cleared
  /\ ~run.renamed
  /\ run.f1 = <<>>
  /\ run.rows = <<>>

\* C22: with no API key in the settings store fetchYouTubeData returns
\* before any request is issued (no key validation, search, video or channel
\* request) and before any cell is cleared or written.
C22_NoKeyShortCircuits ==
  (run.pc # "idle" /\ ~run.storedKey) =>
    /\ run.requests = <<>>
    /\ SheetUntouched
    /\ run.pc \in {"getApiKey", "done"}

\* a run without a key has returned after its message
C22_Witness ==
  /\ run.pc = "done"
  /\ ~run.storedKey
  /\ run.alerts = <<"API Key is not configured">>
  /\ run.maxResults = CellNumber(Num(3))

\* C27: in the pagination loop, with pages no longer than the batch asked
\* for, totalFetched never exceeds maxResults, every search asks for a batch
\* of 1 to 50, and every progress percentage written to F1 is in 0..100.
C27_PaginationBounds ==
  (run.pc # "idle" /\ run.maxResults.type = "number") =>
    /\ RatLeq(Num(run.totalFetched), run.maxResults.value) \/ run.totalFetched = 0
    /\ \A i \in 1..Len(run.requests) :
         run.requests[i].kind = "search" =>
           /\ RatLeq(Num(1), run.requests[i].batchSize)
           /\ RatLeq(run.requests[i].batchSize, Num(50))
    /\ \A i \in 1..Len(run.f1) :
         run.f1[i].kind = "progress" => run.f1[i].percent \in 0..100

TerminalStatus(status) == status.kind \in {"completed", "error"}

\* the only search of the run succeeded and found no video
ZeroVideosFound ==
  /\ run.pages = 1
  /\ run.page = <<>>
  /\ Len(run.requests) = 2

\* C28: a run that passed key and input validation ends with exactly one
\* terminal status in F1, completed or Error, written after the initializing
\* status and all progress statuses; a search that finds no video ends with
\* the completed status for 0 videos, not with the Error status.
C28_OneTerminalStatus ==
  (run.pc = "done" /\ run.cleared) =>
    LET last == run.f1[Len(run.f1)]
    IN  /\ Len(run.f1) >= 2
        /\ run.f1[1].kind = "initializing"
        /\ TerminalStatus(last)
        /\ \A i \in 1..(Len(run.f1) - 1) : ~TerminalStatus(run.f1[i])
        /\ ZeroVideosFound => (last.kind = "completed" /\ last.totalFetched = 0)

RowsTyped(type) == Cardinality({i \in 1..Len(run.rows) : run.rows[i].contentType = type})

\* C29: the dataset handed to identifyContentGaps carries each fetched
\* video's category and duration, so the durationDistribution of the analysis
\* counts as many shorts, midForm and longForm videos as there are rows typed
\* Shorts, Mid-form and Long-form.
C29_AnalysisMatchesRows ==
  (run.pc = "done" /\ run.analysis # <<>>) =>
    LET durations == run.analysis[1].contentGaps.durationDistribution
    IN  /\ \A i \in 1..Len(run.allVideoData) :
             {"category", "durationSeconds"} \subseteq DOMAIN run.allVideoData[i]
        /\ durations.shorts = RowsTyped("Shorts")
        /\ durations.midForm = RowsTyped("Mid-form")
        /\ durations.longForm = RowsTyped("Long-form")

\* D1 is missing, not a number, below 1 or above 200
ResultCountRejected(maxResults) ==
  \/ maxResults.type # "number"
  \/ RatLess(maxResults.value, Num(1))
  \/ RatLess(Num(200), maxResults.value)

\* B1 is empty or blank
SearchTermRejected(searchQuery) ==
  \A i \in 1..Len(searchQuery.value) : searchQuery.value[i] = " "

\* C30: with an empty or blank search term, or a result count that is
\* missing, not a number, below 1 or above 200, fetchYouTubeData issues no
\* search, video-details or channel-details request and leaves the sheet as
\* it is: nothing cleared, no rename, no status in F1.
C30_InvalidInputLeavesSheet ==
  (run.pc # "idle"
     /\ (SearchTermRejected(run.searchQuery) \/ ResultCountRejected(run.maxResults))) =>
    /\ \A i \in 1..Len(run.requests) : run.requests[i].kind = "validate"
    /\ SheetUntouched

\* a run with a valid key and 201 in D1 has returned after its message
C30_Witness ==
  /\ run.pc = "done"
  /\ run.searchQuery = JSString(<<"c", "a", "t", "s">>)
  /\ run.maxResults = CellNumber(Num(201))
  /\ run.requests = <<Request("validate", Num(1))>>
  /\ run.alerts = <<"Invalid Result Count">>

====
